---------------------------- MODULE Spec2Model ----------------------------
(***************************************************************************)
(* Decision engine of the code-battle bot: the generic game-tree search    *)
(* (utils/game_theory_utils.py), the grid primitives                       *)
(* (utils/spatial_utils.py) and the strategy glue                          *)
(* (strategies/battlesnake_ultimate.py).                                   *)
(***************************************************************************)
EXTENDS Integers, Sequences, FiniteSets

(***************************************************************************)
(* State.  The search is called on (root, depth0, is_maximizing_player)    *)
(* and leaves its results in mm_result and em_result; the grid primitives  *)
(* are called on the grid_ variables and                                    *)
(* leave path and area; the strategy works on cur_state.                   *)
(***************************************************************************)
VARIABLES root, depth0, is_maximizing_player, mm_result, em_result
VARIABLES grid_width, grid_height, grid_start, grid_end, grid_obstacles, grid_pc, path, area
VARIABLES cur_state, mover_is_you, ply, game_pc, call_input, safe_result, child_result,
          response, eval_result

searchVars == <<root, depth0, is_maximizing_player, mm_result, em_result>>
gridVars == <<grid_width, grid_height, grid_start, grid_end, grid_obstacles, grid_pc, path, area>>
gameVars ==
    <<cur_state, mover_is_you, ply, game_pc, call_input, safe_result, child_result, response,
      eval_result>>
vars == <<searchVars, gridVars, gameVars>>

(***************************************************************************)
(* Bounds of the model.                                                    *)
(***************************************************************************)
\* largest number of nodes of a game tree handed to the search
MaxNodes == 3
\* leaf scores are -inf, 0 .. MaxScore, +inf
MaxScore == 1
\* search depths 0 .. MaxDepth
MaxDepth == 2
\* the grid primitives run on boards of GridWidth x GridHeight cells
GridWidth == 3
GridHeight == 3
\* with at most MaxObstacles blocked cells
MaxObstacles == 2
\* the agents of a turn snapshot have at most MaxBody segments
MaxBody == 2

(***************************************************************************)
(* Python floats as the search sees them.  A score is a pair <<n, d>>:     *)
(* d > 0 is the finite value n/d in lowest terms, d = 0 is +inf (n = 1),   *)
(* -inf (n = -1) or NaN (n = 0).  Finite arithmetic is exact.              *)
(***************************************************************************)
PInf == <<1, 0>>
NInf == <<-1, 0>>
NaN == <<0, 0>>
Fin(n) == <<n, 1>>
IsFinite(a) == a[2] > 0

Abs(n) == IF n < 0 THEN -n ELSE n

RECURSIVE Gcd(_, _)
Gcd(a, b) == IF b = 0 THEN a ELSE Gcd(b, a % b)

Norm(n, d) ==
    LET g == Gcd(Abs(n), d)
    IN  IF n = 0 THEN <<0, 1>> ELSE <<n \div g, d \div g>>

\* a + b  (avg_score += evaluation)
FAdd(a, b) ==
    IF a = NaN \/ b = NaN THEN NaN
    ELSE IF ~IsFinite(a) /\ ~IsFinite(b) THEN (IF a = b THEN a ELSE NaN)
    ELSE IF ~IsFinite(a) THEN a
    ELSE IF ~IsFinite(b) THEN b
    ELSE Norm(a[1] * b[2] + b[1] * a[2], a[2] * b[2])

\* a / k for an integer k >= 1  (avg_score / len(children))
FDiv(a, k) == IF IsFinite(a) THEN Norm(a[1], a[2] * k) ELSE a

\* a > b ; every comparison with NaN is False
FGt(a, b) ==
    IF a = NaN \/ b = NaN THEN FALSE
    ELSE IF a = b THEN FALSE
    ELSE IF a = PInf \/ b = NInf THEN TRUE
    ELSE IF a = NInf \/ b = PInf THEN FALSE
    ELSE a[1] * b[2] > b[1] * a[2]

\* a < b
FLt(a, b) == FGt(b, a)

\* a <= b
FLe(a, b) == IF a = NaN \/ b = NaN THEN FALSE ELSE a = b \/ FGt(b, a)

\* max(a, b) and min(a, b) of Python: the first argument unless the second beats it
PyMax(a, b) == IF FGt(b, a) THEN b ELSE a
PyMin(a, b) == IF FLt(b, a) THEN b ELSE a

(***************************************************************************)
(* Game trees.  A search state is a node [score, kids]: score is what      *)
(* evaluate_func returns on it, kids the states get_children_func yields   *)
(* for the role that reaches the node, in generation order.  The move of   *)
(* the i-th child is i; NoMove is Python's None.                           *)
(***************************************************************************)
NoMove == 0
NoResult == <<>>

Evaluate(node) == node.score
GetChildrenFunc(node) == [i \in 1..Len(node.kids) |-> <<i, node.kids[i]>>]


\* depth == 0 or not children
IsTerminalMut(depth, children) == depth = 0 /\ Len(children) = 0
IsTerminal(depth, children) == depth = 0 \/ Len(children) = 0

\* beta <= alpha
PruneMut(alpha, beta) == FLe(alpha, beta)
Prune(alpha, beta) == FLe(beta, alpha)

\* avg_score / len(children)
ChanceValueMut(avg_score, n) == avg_score
ChanceValue(avg_score, n) == FDiv(avg_score, n)

RECURSIVE minimax(_, _, _, _, _)
RECURSIVE MaxLoop(_, _, _, _, _, _, _)
RECURSIVE MinLoop(_, _, _, _, _, _, _)

\* the maximizing player's loop over children[i..], with the loop's locals
MaxLoop(children, i, depth, alpha, beta, max_eval, best_move) ==
    IF i > Len(children) THEN <<max_eval, best_move>>
    ELSE LET evaluation == minimax(children[i][2], depth - 1, FALSE, alpha, beta)[1]
             better == FGt(evaluation, max_eval)
             max_eval2 == IF better THEN evaluation ELSE max_eval
             best_move2 == IF better THEN children[i][1] ELSE best_move
             alpha2 == PyMax(alpha, evaluation)
         IN  IF Prune(alpha2, beta) THEN <<max_eval2, best_move2>>
             ELSE MaxLoop(children, i + 1, depth, alpha2, beta, max_eval2, best_move2)

\* the minimizing player's loop
MinLoop(children, i, depth, alpha, beta, min_eval, best_move) ==
    IF i > Len(children) THEN <<min_eval, best_move>>
    ELSE LET evaluation == minimax(children[i][2], depth - 1, TRUE, alpha, beta)[1]
             better == FLt(evaluation, min_eval)
             min_eval2 == IF better THEN evaluation ELSE min_eval
             best_move2 == IF better THEN children[i][1] ELSE best_move
             beta2 == PyMin(beta, evaluation)
         IN  IF Prune(alpha, beta2) THEN <<min_eval2, best_move2>>
             ELSE MinLoop(children, i + 1, depth, alpha, beta2, min_eval2, best_move2)

minimax(game_state, depth, is_max, alpha, beta) ==
    LET children == GetChildrenFunc(game_state)
    IN  IF IsTerminal(depth, children) THEN <<Evaluate(game_state), NoMove>>
        ELSE IF is_max THEN MaxLoop(children, 1, depth, alpha, beta, NInf, NoMove)
        ELSE MinLoop(children, 1, depth, alpha, beta, PInf, NoMove)

RECURSIVE expectimax(_, _, _)
RECURSIVE EMaxLoop(_, _, _, _, _)
RECURSIVE EChanceLoop(_, _, _, _)

\* the maximizing player's loop of expectimax
EMaxLoop(children, i, depth, max_eval, best_move) ==
    IF i > Len(children) THEN <<max_eval, best_move>>
    ELSE LET evaluation == expectimax(children[i][2], depth - 1, FALSE)[1]
             better == FGt(evaluation, max_eval)
         IN  EMaxLoop(children, i + 1, depth,
                      IF better THEN evaluation ELSE max_eval,
                      IF better THEN children[i][1] ELSE best_move)

\* the chance node's loop: avg_score += evaluation
EChanceLoop(children, i, depth, avg_score) ==
    IF i > Len(children) THEN avg_score
    ELSE EChanceLoop(children, i + 1, depth,
                     FAdd(avg_score, expectimax(children[i][2], depth - 1, TRUE)[1]))

expectimax(game_state, depth, is_max) ==
    LET children == GetChildrenFunc(game_state)
    IN  IF IsTerminal(depth, children) THEN <<Evaluate(game_state), NoMove>>
        ELSE IF is_max THEN EMaxLoop(children, 1, depth, NInf, NoMove)
        ELSE <<ChanceValue(EChanceLoop(children, 1, depth, Fin(0)), Len(children)), NoMove>>

(***************************************************************************)
(* The inputs of the search: every tree of at most MaxNodes nodes, and the *)
(* two-ply trees with two children per node.                               *)
(***************************************************************************)
Scores == {NInf, PInf} \cup {Fin(k) : k \in 0..MaxScore}

RECURSIVE TreesOfSize(_)
RECURSIVE Forests(_)
TreesOfSize(n) == {[score |-> s, kids |-> f] : s \in Scores, f \in Forests(n - 1)}
Forests(m) ==
    IF m = 0 THEN {<<>>}
    ELSE UNION {{<<t>> \o f : t \in TreesOfSize(k), f \in Forests(m - k)} : k \in 1..m}

Leaves == {[score |-> s, kids |-> <<>>] : s \in Scores}
Pairs(S) == {<<>>} \cup {<<a>> : a \in S} \cup {<<a, b>> : a \in S, b \in S}
TwoPly ==
    LET Mid == {[score |-> Fin(0), kids |-> f] : f \in Pairs(Leaves)}
    IN  {[score |-> Fin(0), kids |-> <<a, b>>] : a \in Mid, b \in Mid}

Trees == UNION {TreesOfSize(n) : n \in 1..MaxNodes} \cup TwoPly

InitSearch ==
    /\ root \in Trees
    /\ depth0 \in 0..MaxDepth
    /\ is_maximizing_player \in BOOLEAN
    /\ mm_result = NoResult
    /\ em_result = NoResult

\* minimax(game_state, depth, is_maximizing_player, evaluate, children), default bounds
CallMinimax ==
    /\ mm_result = NoResult
    /\ mm_result' = minimax(root, depth0, is_maximizing_player, NInf, PInf)
    /\ UNCHANGED <<root, depth0, is_maximizing_player, em_result, gridVars, gameVars>>

\* expectimax(game_state, depth, is_maximizing_player, evaluate, children)
CallExpectimax ==
    /\ em_result = NoResult
    /\ em_result' = expectimax(root, depth0, is_maximizing_player)
    /\ UNCHANGED <<root, depth0, is_maximizing_player, mm_result, gridVars, gameVars>>


(***************************************************************************)
(* Reference notions the claims about the search are stated with.          *)
(***************************************************************************)
\* the scores evaluate_func gives the children of a node
KidScores(n) == [i \in 1..Len(n.kids) |-> n.kids[i].score]

\* the greatest / least element of a non-empty sequence of (non-NaN) scores
MaxOf(vs) == CHOOSE v \in {vs[i] : i \in 1..Len(vs)} : \A j \in 1..Len(vs) : ~FGt(vs[j], v)
MinOf(vs) == CHOOSE v \in {vs[i] : i \in 1..Len(vs)} : \A j \in 1..Len(vs) : ~FGt(v, vs[j])

\* the first position of vs that holds v
FirstAt(vs, v) == CHOOSE i \in 1..Len(vs) : vs[i] = v /\ \A j \in 1..(i - 1) : vs[j] # v

\* Minimax that evaluates every child and never prunes; a child is chosen when
\* it strictly improves on the running best, which starts at -inf (+inf for
\* the minimizer), so the first child that attains the best score is kept.
RECURSIVE Exhaustive(_, _, _)
Exhaustive(n, d, is_max) ==
    LET vs == [i \in 1..Len(n.kids) |-> Exhaustive(n.kids[i], d - 1, ~is_max)[1]]
        best == IF is_max THEN MaxOf(vs) ELSE MinOf(vs)
        start == IF is_max THEN NInf ELSE PInf
    IN  IF d = 0 \/ Len(n.kids) = 0 THEN <<n.score, NoMove>>
        ELSE <<best, IF best = start THEN NoMove ELSE FirstAt(vs, best)>>

\* the sum of a sequence of scores in the extended reals; NaN where it is
\* undefined (both infinities occur)
RECURSIVE FiniteSum(_, _)
FiniteSum(vs, i) ==
    IF i > Len(vs) THEN Fin(0)
    ELSE LET r == FiniteSum(vs, i + 1)
         IN  Norm(vs[i][1] * r[2] + r[1] * vs[i][2], vs[i][2] * r[2])
MixedInf(vs) == (\E i \in 1..Len(vs) : vs[i] = PInf) /\ (\E i \in 1..Len(vs) : vs[i] = NInf)
MathSum(vs) ==
    IF MixedInf(vs) THEN NaN
    ELSE IF \E i \in 1..Len(vs) : vs[i] = PInf THEN PInf
    ELSE IF \E i \in 1..Len(vs) : vs[i] = NInf THEN NInf
    ELSE FiniteSum(vs, 1)
\* n * r = s as floats compare: never true of a NaN
TimesEquals(n, r, s) ==
    /\ r # NaN /\ s # NaN
    /\ IF IsFinite(r) THEN IsFinite(s) /\ n * r[1] * s[2] = s[1] * r[2] ELSE r = s

\* the scores expectimax computes for the children of a chance node
ChanceKidScores(n, d) == [i \in 1..Len(n.kids) |-> expectimax(n.kids[i], d - 1, TRUE)[1]]

(***************************************************************************)
(* Claims about the search.                                                *)
(***************************************************************************)
SearchResults == {r \in {mm_result, em_result} : r # NoResult}

\* C2: with depth 1 on the maximizing ply and n >= 1 children, minimax and
\* expectimax return the maximum of the children's scores and the move of the
\* first child that attains it, for every assignment of scores (finite, -inf,
\* +inf), ties included.
C2_MaxPlyFirstBest ==
    (depth0 = 1 /\ is_maximizing_player /\ Len(root.kids) >= 1) =>
        \A r \in SearchResults :
            r = <<MaxOf(KidScores(root)), FirstAt(KidScores(root), MaxOf(KidScores(root)))>>

\* C3: minimax with the default bounds returns the same (score, move) pair as
\* the exhaustive minimax that never prunes, for every tree, depth and role.
C3_PruningPreservesResult ==
    mm_result # NoResult => mm_result = Exhaustive(root, depth0, is_maximizing_player)

\* C3 witness: a maximizing root whose second child is cut off after its first
\* grandchild (0 <= alpha = 1) although the skipped grandchild scores +inf.
C3_Witness ==
    /\ mm_result = <<Fin(1), 1>>
    /\ depth0 = 2 /\ is_maximizing_player
    /\ Len(root.kids) = 2
    /\ KidScores(root.kids[1]) = <<Fin(1)>>
    /\ KidScores(root.kids[2]) = <<Fin(0), PInf>>

C5_TerminalEvaluatesInput ==
    (depth0 = 0 \/ Len(root.kids) = 0) =>
        \A r \in SearchResults : r = <<Evaluate(root), NoMove>>

\* C5 witness: depth 0 at a state that has a child scoring differently.
C5_Witness ==
    /\ depth0 = 0 /\ Len(root.kids) >= 1 /\ root.kids[1].score # root.score
    /\ mm_result = <<root.score, NoMove>> /\ em_result = <<root.score, NoMove>>


(***************************************************************************)
(* Grid primitives (utils/spatial_utils.py).  A coordinate is <<x, y>>.    *)
(***************************************************************************)
None == <<>>

InBounds(c, width, height) == 0 <= c[1] /\ c[1] < width /\ 0 <= c[2] /\ c[2] < height

\* for dx, dy in [(0, 1), (0, -1), (1, 0), (-1, 0)]
GridDirs == << <<0, 1>>, <<0, -1>>, <<1, 0>>, <<-1, 0>> >>

\* the four cells next to c
Adjacent(c) == {<<c[1], c[2] + 1>>, <<c[1], c[2] - 1>>, <<c[1] + 1, c[2]>>, <<c[1] - 1, c[2]>>}

manhattan_distance(a, b) == Abs(a[1] - b[1]) + Abs(a[2] - b[2])

\* f with f[k] set to v, k added to the domain when new (dict assignment)
DictSet(f, k, v) == [c \in DOMAIN f \cup {k} |-> IF c = k THEN v ELSE f[c]]

\* tuple order of heap entries (priority, (x, y))
EntryLess(a, b) ==
    \/ a[1] < b[1]
    \/ a[1] = b[1] /\ a[2][1] < b[2][1]
    \/ a[1] = b[1] /\ a[2][1] = b[2][1] /\ a[2][2] < b[2][2]

\* heappop: the least entry of the heap
HeapMinMut(pq) == CHOOSE e \in pq : \A o \in pq : o = e \/ EntryLess(o, e)
HeapMin(pq) == CHOOSE e \in pq : \A o \in pq : o = e \/ EntryLess(e, o)

\* neighbor in obstacles and neighbor != end_coord
BlockedMut(neighbor, end_coord, obstacles) == neighbor \in obstacles /\ neighbor = end_coord
Blocked(neighbor, end_coord, obstacles) == neighbor \in obstacles /\ neighbor # end_coord

\* priority = new_cost + manhattan_distance(end_coord, neighbor)
Priority(new_cost, end_coord, neighbor) == new_cost + manhattan_distance(end_coord, neighbor)

\* the path read back from came_from, start first
RECURSIVE ReconstructPath(_, _)
ReconstructPath(came_from, current) ==
    IF current = None THEN <<>>
    ELSE Append(ReconstructPath(came_from, came_from[current]), current)

\* the for loop over the neighbours of current, from direction k on;
\* st holds pq, came_from and cost_so_far
RECURSIVE AStarExpand(_, _, _, _, _, _, _)
AStarExpand(st, k, current, end_coord, obstacles, width, height) ==
    IF k > Len(GridDirs) THEN st
    ELSE LET neighbor == <<current[1] + GridDirs[k][1], current[2] + GridDirs[k][2]>>
             new_cost == st.cost_so_far[current] + 1
             st2 ==
                 IF ~InBounds(neighbor, width, height) THEN st
                 ELSE IF Blocked(neighbor, end_coord, obstacles) THEN st
                 ELSE IF neighbor \notin DOMAIN st.cost_so_far
                         \/ new_cost < st.cost_so_far[neighbor]
                 THEN [pq |-> st.pq \cup
                                 {<<Priority(new_cost, end_coord, neighbor), neighbor>>},
                       came_from |-> DictSet(st.came_from, neighbor, current),
                       cost_so_far |-> DictSet(st.cost_so_far, neighbor, new_cost)]
                 ELSE st
         IN  AStarExpand(st2, k + 1, current, end_coord, obstacles, width, height)

\* the while loop
RECURSIVE AStarLoop(_, _, _, _, _)
AStarLoop(st, end_coord, obstacles, width, height) ==
    IF st.pq = {} THEN None
    ELSE LET e == HeapMin(st.pq)
             current == e[2]
             popped == [st EXCEPT !.pq = st.pq \ {e}]
         IN  IF current = end_coord THEN ReconstructPath(st.came_from, current)
             ELSE AStarLoop(AStarExpand(popped, 1, current, end_coord, obstacles,
                                        width, height),
                            end_coord, obstacles, width, height)

a_star(start_coord, end_coord, obstacles, width, height) ==
    AStarLoop([pq |-> {<<0, start_coord>>},
               came_from |-> DictSet(<<>>, start_coord, None),
               cost_so_far |-> DictSet(<<>>, start_coord, 0)],
              end_coord, obstacles, width, height)


\* 0 <= neighbor < (width, height) and neighbor not in obstacles
FloodOpenMut(neighbor, obstacles, width, height) == InBounds(neighbor, width, height)
FloodOpen(neighbor, obstacles, width, height) ==
    InBounds(neighbor, width, height) /\ neighbor \notin obstacles

\* the for loop of flood_fill over the neighbours of cell, from direction k on;
\* st holds q and visited
RECURSIVE FloodExpand(_, _, _, _, _, _)
FloodExpand(st, k, cell, obstacles, width, height) ==
    IF k > Len(GridDirs) THEN st
    ELSE LET neighbor == <<cell[1] + GridDirs[k][1], cell[2] + GridDirs[k][2]>>
             st2 == IF neighbor \notin st.visited
                       /\ FloodOpen(neighbor, obstacles, width, height)
                    THEN [q |-> Append(st.q, neighbor),
                          visited |-> st.visited \cup {neighbor}]
                    ELSE st
         IN  FloodExpand(st2, k + 1, cell, obstacles, width, height)

\* the while loop of flood_fill
RECURSIVE FloodLoop(_, _, _, _, _)
FloodLoop(st, count, obstacles, width, height) ==
    IF st.q = <<>> THEN count
    ELSE FloodLoop(FloodExpand([st EXCEPT !.q = Tail(st.q)], 1, Head(st.q),
                               obstacles, width, height),
                   count + 1, obstacles, width, height)

flood_fill(start_coord, obstacles, width, height) ==
    IF start_coord \in obstacles THEN 0
    ELSE IF ~InBounds(start_coord, width, height) THEN 0
    ELSE FloodLoop([q |-> <<start_coord>>, visited |-> {start_coord}], 0,
                   obstacles, width, height)

(***************************************************************************)
(* The inputs of the grid primitives.                                      *)
(***************************************************************************)
Cells(width, height) == (0..(width - 1)) \X (0..(height - 1))
\* the board and the ring of cells just outside it
CellsAround(width, height) == ((-1)..width) \X ((-1)..height)

RECURSIVE SubsetsUpTo(_, _)
SubsetsUpTo(S, n) ==
    IF n = 0 THEN {{}}
    ELSE LET smaller == SubsetsUpTo(S, n - 1)
         IN  smaller \cup {T \cup {c} : T \in smaller, c \in S}

InitGridBoard ==
    /\ grid_width = GridWidth
    /\ grid_height = GridHeight
    /\ grid_obstacles \in SubsetsUpTo(Cells(GridWidth, GridHeight), MaxObstacles)
    /\ grid_pc = "input"
    /\ path = None
    /\ area = 0

InitAStar ==
    /\ InitGridBoard
    /\ grid_start \in Cells(GridWidth, GridHeight)
    /\ grid_end \in Cells(GridWidth, GridHeight)

InitFlood ==
    /\ InitGridBoard
    /\ grid_start \in CellsAround(GridWidth, GridHeight)
    /\ grid_end = None

\* path = a_star(grid_start, grid_end, grid_obstacles, grid_width, grid_height)
CallAStar ==
    /\ grid_pc = "input"
    /\ path' = a_star(grid_start, grid_end, grid_obstacles, grid_width, grid_height)
    /\ grid_pc' = "a_star"
    /\ UNCHANGED <<grid_width, grid_height, grid_start, grid_end, grid_obstacles, area>>
    /\ UNCHANGED <<searchVars, gameVars>>

\* area = flood_fill(grid_start, grid_obstacles, grid_width, grid_height)
CallFloodFill ==
    /\ grid_pc = "input"
    /\ area' = flood_fill(grid_start, grid_obstacles, grid_width, grid_height)
    /\ grid_pc' = "flood_fill"
    /\ UNCHANGED <<grid_width, grid_height, grid_start, grid_end, grid_obstacles, path>>
    /\ UNCHANGED <<searchVars, gameVars>>


(***************************************************************************)
(* Reference notions the claims about the grid are stated with.            *)
(***************************************************************************)
\* the cells a path may enter from c: in bounds, and no obstacle unless the goal
Enterable(c, goal, obs, w, h) ==
    {n \in Adjacent(c) : InBounds(n, w, h) /\ (n \notin obs \/ n = goal)}

\* number of cells of a shortest path from the cells of front (d cells so far)
\* to goal, 0 when there is none
RECURSIVE ShortestFrom(_, _, _, _, _, _, _)
ShortestFrom(front, seen, d, goal, obs, w, h) ==
    IF goal \in front THEN d
    ELSE IF front = {} THEN 0
    ELSE LET next == UNION {Enterable(c, goal, obs, w, h) : c \in front} \ seen
         IN  ShortestFrom(next, seen \cup next, d + 1, goal, obs, w, h)
ShortestLen(start, goal, obs, w, h) == ShortestFrom({start}, {start}, 1, goal, obs, w, h)

\* p is a 4-connected sequence of board cells from start to goal
IsPath(p, start, goal, w, h) ==
    /\ Len(p) >= 1 /\ p[1] = start /\ p[Len(p)] = goal
    /\ \A i \in 1..Len(p) : InBounds(p[i], w, h)
    /\ \A i \in 1..(Len(p) - 1) : manhattan_distance(p[i], p[i + 1]) = 1

\* the free cells 4-connected to the cells of S
RECURSIVE Component(_, _, _, _)
Component(S, obs, w, h) ==
    LET more == {n \in UNION {Adjacent(c) : c \in S} : InBounds(n, w, h) /\ n \notin obs} \ S
    IN  IF more = {} THEN S ELSE Component(S \cup more, obs, w, h)

(***************************************************************************)
(* Claims about the grid primitives.                                       *)
(***************************************************************************)
\* C6: for every obstacle set and in-bounds start and goal, a_star returns a
\* 4-connected path from start to goal of minimum length among the paths that
\* enter no obstacle cell but the goal (1 + Manhattan distance when there are
\* no obstacles), and returns none exactly when there is no such path.
C6_AStarShortest ==
    grid_pc = "a_star" =>
        LET best == ShortestLen(grid_start, grid_end, grid_obstacles, grid_width, grid_height)
        IN  IF best = 0 THEN path = None
            ELSE /\ IsPath(path, grid_start, grid_end, grid_width, grid_height)
                 /\ Len(path) = best
                 /\ grid_obstacles = {} =>
                        Len(path) = 1 + manhattan_distance(grid_start, grid_end)

\* C6 witness: a detour around obstacles, longer than the Manhattan bound.
C6_Witness ==
    /\ grid_pc = "a_star" /\ path # None
    /\ Len(path) > 1 + manhattan_distance(grid_start, grid_end)

\* C6 witness of the other branch: the goal is walled off and a_star returns none.
C6_WitnessNone ==
    /\ grid_pc = "a_star" /\ path = None /\ grid_start \notin grid_obstacles

\* C7 as claimed: a returned path holds no obstacle cell other than the goal,
\* also when the start is itself an obstacle.
C7_PathAvoidsObstacles ==
    (grid_pc = "a_star" /\ path # None) =>
        \A i \in 1..Len(path) : path[i] \in grid_obstacles => path[i] = grid_end

\* C7 amended: a returned path holds no obstacle cell other than its start
\* cell and the goal cell.
C7_PathAvoidsObstaclesAfterStart ==
    (grid_pc = "a_star" /\ path # None) =>
        \A i \in 1..Len(path) :
            path[i] \in grid_obstacles => path[i] \in {grid_start, grid_end}

\* C7 witness: a path that starts on an obstacle and goes round another one.
C7_Witness ==
    /\ grid_pc = "a_star" /\ path # None
    /\ Len(path) > 1 + manhattan_distance(grid_start, grid_end)
    /\ grid_start \in grid_obstacles /\ grid_end \notin grid_obstacles

\* C8: flood_fill returns 0 when start is an obstacle or out of bounds, and
\* otherwise the number of cells of the 4-connected component of free cells
\* that holds start: width * height without obstacles, 1 when every
\* neighbour of start is an obstacle or off the board.
C8_FloodFillCountsComponent ==
    grid_pc = "flood_fill" =>
        IF grid_start \in grid_obstacles \/ ~InBounds(grid_start, grid_width, grid_height)
        THEN area = 0
        ELSE /\ area = Cardinality(Component({grid_start}, grid_obstacles,
                                             grid_width, grid_height))
             /\ grid_obstacles = {} => area = grid_width * grid_height
             /\ (\A n \in Adjacent(grid_start) :
                    n \in grid_obstacles \/ ~InBounds(n, grid_width, grid_height))
                 => area = 1

\* C8 witness: obstacles cut the board, and start's component is a proper part.
C8_Witness ==
    /\ grid_pc = "flood_fill" /\ area > 1
    /\ area < grid_width * grid_height - Cardinality(grid_obstacles)

\* C8 witnesses of the corner cases: an enclosed start, a start off the board.
C8_WitnessEnclosed == grid_pc = "flood_fill" /\ area = 1 /\ grid_obstacles # {}
C8_WitnessOutside ==
    /\ grid_pc = "flood_fill" /\ area = 0
    /\ ~InBounds(grid_start, grid_width, grid_height)

(***************************************************************************)
(* The strategy (strategies/battlesnake_ultimate.py).  A game state is     *)
(* [you, board]; board is [width, height, snakes, food]; a snake is        *)
(* [id, body, head, health, length].  you is a record of its own, as in a  *)
(* decoded turn request: writing to a snake of board.snakes leaves it.     *)
(***************************************************************************)
SEARCH_DEPTH == 3
MaxHealth == 100
\* the board of the repository's tests, 3 x 3
BoardWidth == 3
BoardHeight == 3

\* possible_moves, in the order the dict is iterated
PossibleMoves ==
    << <<"up", <<0, -1>> >>, <<"down", <<0, 1>> >>,
       <<"left", <<-1, 0>> >>, <<"right", <<1, 0>> >> >>

\* the descriptor get_info returns
get_info ==
    [apiversion |-> "1", author |-> "UltimateBot", color |-> "#FFFFFF",
     head |-> "all-seeing", tail |-> "ghost"]

\* on_game_move: the search call and the {"move": ...} response are commented
\* out; what is returned is the descriptor
on_game_move(game_state) ==
    [apiversion |-> "1", author |-> "UltimateBot", color |-> "#FFFFFF",
     head |-> "all-seeing", tail |-> "ghost"]

\* position in board.snakes of the first snake with this id, 0 when there is none
find_snake_in_state(snake_id, game_state) ==
    LET snakes == game_state.board.snakes
        hits == {i \in 1..Len(snakes) : snakes[i].id = snake_id}
    IN  IF hits = {} THEN 0 ELSE CHOOSE i \in hits : \A j \in hits : i <= j

is_snake_alive(snake_id, game_state) ==
    LET i == find_snake_in_state(snake_id, game_state)
    IN  IF i = 0 THEN FALSE ELSE game_state.board.snakes[i].health > 0

\* the first snake of board.snakes that is not you, None when there is none
get_opponent(game_state) ==
    LET snakes == game_state.board.snakes
        hits == {i \in 1..Len(snakes) : snakes[i].id # game_state.you.id}
    IN  IF hits = {} THEN None ELSE snakes[CHOOSE i \in hits : \A j \in hits : i <= j]

\* s['body'][:-1] as a set of cells
BodyButTail(s) == {s.body[i] : i \in 1..(Len(s.body) - 1)}

\* snake['length'] <= opponent['length']
LosesHeadOnMut(snake, opponent) == snake.length < opponent.length
LosesHeadOn(snake, opponent) == snake.length <= opponent.length

\* the body of the loop of _get_safe_moves: is target_coord kept
IsSafeTarget(target_coord, snake, game_state) ==
    LET board == game_state.board
    IN  /\ InBounds(target_coord, board.width, board.height)
        /\ ~\E i \in 1..Len(board.snakes) : target_coord \in BodyButTail(board.snakes[i])
        /\ ~\E i \in 1..Len(board.snakes) :
               /\ board.snakes[i].id # snake.id
               /\ target_coord = board.snakes[i].head
               /\ LosesHeadOn(snake, board.snakes[i])

\* safe_moves as the sequence of its (move_name, target_coord) items
RECURSIVE SafeMovesFrom(_, _, _)
SafeMovesFrom(k, snake, game_state) ==
    IF k > Len(PossibleMoves) THEN <<>>
    ELSE LET target_coord == <<snake.head[1] + PossibleMoves[k][2][1],
                               snake.head[2] + PossibleMoves[k][2][2]>>
             rest == SafeMovesFrom(k + 1, snake, game_state)
         IN  IF IsSafeTarget(target_coord, snake, game_state)
             THEN <<(<<PossibleMoves[k][1], target_coord>>)>> \o rest
             ELSE rest
get_safe_moves(snake, game_state) == SafeMovesFrom(1, snake, game_state)

\* a sequence without its i-th element
RemoveAt(seq, i) == [j \in 1..(Len(seq) - 1) |-> IF j < i THEN seq[j] ELSE seq[j + 1]]
\* position of the first element of seq equal to x, 0 when there is none
FirstIndex(seq, x) ==
    LET hits == {i \in 1..Len(seq) : seq[i] = x}
    IN  IF hits = {} THEN 0 ELSE CHOOSE i \in hits : \A j \in hits : i <= j
ButLast(seq) == SubSeq(seq, 1, Len(seq) - 1)

\* _simulate_move on the snake at position i of state.board.snakes; the state
\* as the call leaves it
simulate_move_mut(i, state, next_head) ==
    LET snake == state.board.snakes[i]
        f == FirstIndex(state.board.food, next_head)
        body == ButLast(<<next_head>> \o snake.body)
        moved == [snake EXCEPT !.body = body, !.head = next_head,
                               !.health = IF f # 0 THEN MaxHealth ELSE snake.health - 1,
                               !.length = Len(body)]
    IN  [state EXCEPT !.board.snakes[i] = moved,
                      !.board.food = IF f # 0 THEN RemoveAt(@, f) ELSE @]
simulate_move(i, state, next_head) ==
    LET snake == state.board.snakes[i]
        f == FirstIndex(state.board.food, next_head)
        eats_food == f # 0
        grown == <<next_head>> \o snake.body
        body == IF eats_food THEN grown ELSE ButLast(grown)
        moved == [snake EXCEPT !.body = body, !.head = next_head,
                               !.health = IF eats_food THEN MaxHealth ELSE snake.health - 1,
                               !.length = Len(body)]
    IN  [state EXCEPT !.board.snakes[i] = moved,
                      !.board.food = IF eats_food THEN RemoveAt(@, f) ELSE @]

\* copy.deepcopy(game_state): an object of its own with the same value
deepcopy(game_state) == [value |-> game_state, aliased |-> FALSE]

\* snake_to_move of _get_children
SnakeToMove(game_state, is_max) ==
    IF is_max THEN game_state.you ELSE get_opponent(game_state)

\* the for loop of _get_children from item k of safe_moves on; acc holds
\* children and game_state, the caller's state as the loop leaves it
RECURSIVE ChildrenLoop(_, _, _, _)
ChildrenLoop(acc, k, safe, snake_id) ==
    IF k > Len(safe) THEN acc
    ELSE LET new_state == deepcopy(acc.game_state)
             sim_snake == find_snake_in_state(snake_id, new_state.value)
             after == simulate_move(sim_snake, new_state.value, safe[k][2])
         IN  ChildrenLoop([children |-> Append(acc.children, <<safe[k][1], after>>),
                           game_state |-> IF new_state.aliased THEN after
                                          ELSE acc.game_state],
                          k + 1, safe, snake_id)

\* _get_children: the list it returns and the caller's state afterwards
get_children(game_state, is_max) ==
    LET snake_to_move == SnakeToMove(game_state, is_max)
    IN  IF snake_to_move = None \/ ~is_snake_alive(snake_to_move.id, game_state)
        THEN [children |-> <<>>, game_state |-> game_state]
        ELSE ChildrenLoop([children |-> <<>>, game_state |-> game_state], 1,
                          get_safe_moves(snake_to_move, game_state), snake_to_move.id)

\* _get_obstacles_from_state: every snake's body but its last segment
get_obstacles_from_state(game_state) ==
    UNION {BodyButTail(game_state.board.snakes[i]) :
               i \in 1..Len(game_state.board.snakes)}

\* the food loop of _evaluate_heuristic from item k on: food_control_score
RECURSIVE FoodControlFrom(_, _, _, _, _)
FoodControlFrom(k, game_state, my_head, opponent, obstacles) ==
    IF k > Len(game_state.board.food) THEN 0
    ELSE LET board == game_state.board
             food_coord == board.food[k]
             my_path == a_star(my_head, food_coord, obstacles, board.width, board.height)
             opp_path == IF opponent # None
                         THEN a_star(opponent.head, food_coord, obstacles,
                                     board.width, board.height)
                         ELSE None
         IN  (IF my_path # None /\ (opp_path = None \/ Len(my_path) < Len(opp_path))
              THEN 1 ELSE 0)
             + FoodControlFrom(k + 1, game_state, my_head, opponent, obstacles)

\* _evaluate_heuristic: the score it returns, with the my_space and opp_space
\* it computed on the way (None when it returns before computing them).  The
\* weights are 1.0, 0.1 and 5.0; the weighted sum is taken exactly, in tenths.
evaluate_heuristic(game_state) ==
    LET my_snake == game_state.you
        opponent == get_opponent(game_state)
    IN  IF ~is_snake_alive(my_snake.id, game_state)
        THEN [score |-> NInf, my_space |-> None, opp_space |-> None]
        ELSE IF opponent # None /\ ~is_snake_alive(opponent.id, game_state)
        THEN [score |-> PInf, my_space |-> None, opp_space |-> None]
        ELSE LET obstacles == get_obstacles_from_state(game_state)
                 board_width == game_state.board.width
                 board_height == game_state.board.height
                 my_head == my_snake.head
                 my_space == flood_fill(my_head, obstacles, board_width, board_height)
                 opp_space == IF opponent # None
                              THEN flood_fill(opponent.head, obstacles,
                                              board_width, board_height)
                              ELSE 0
                 space_advantage == my_space - opp_space
                 health_advantage ==
                     my_snake.health - (IF opponent # None THEN opponent.health ELSE 0)
                 food_control_score ==
                     FoodControlFrom(1, game_state, my_head, opponent, obstacles)
             IN  [score |-> Norm(10 * space_advantage + health_advantage
                                    + 50 * food_control_score, 10),
                  my_space |-> my_space, opp_space |-> opp_space]

(***************************************************************************)
(* Turn snapshots.                                                         *)
(***************************************************************************)
BoardCells == Cells(BoardWidth, BoardHeight)

\* bodies of n segments: head first, consecutive segments on adjacent cells,
\* no cell twice
RECURSIVE Bodies(_)
Bodies(n) ==
    IF n = 1 THEN {<<c>> : c \in BoardCells}
    ELSE UNION {{Append(b, c) : c \in {d \in Adjacent(b[Len(b)]) \cap BoardCells :
                                         \A i \in 1..Len(b) : b[i] # d}} :
                b \in Bodies(n - 1)}
AllBodies == UNION {Bodies(n) : n \in 1..MaxBody}
CellsOf(body) == {body[i] : i \in 1..Len(body)}

\* the resources of a snapshot: none, or one on a free cell
FoodLists(S) == {<<>>} \cup {<<c>> : c \in S}

\* the health of the agents of a snapshot: about to starve, or healthy
StartHealth == {1, 90}

Snake(id, body, health) ==
    [id |-> id, body |-> body, head |-> body[1], health |-> health, length |-> Len(body)]

\* a decoded turn request: you, then the rival if there is one
Snapshot(me, rivals, food) ==
    [you |-> me,
     board |-> [width |-> BoardWidth, height |-> BoardHeight,
                snakes |-> <<me>> \o rivals, food |-> food]]

InitGame ==
    /\ \E body \in AllBodies, health \in StartHealth :
         \E rivals \in {<<>>} \cup
                        {<<Snake("rival", b, health)>> :
                            b \in {r \in AllBodies : CellsOf(r) \cap CellsOf(body) = {}}} :
            \E food \in FoodLists(BoardCells \ (CellsOf(body) \cup
                                    UNION {CellsOf(rivals[i].body) : i \in 1..Len(rivals)})) :
               cur_state = Snapshot(Snake("me", body, health), rivals, food)
    /\ mover_is_you = TRUE
    /\ ply = 0
    /\ game_pc = "ready"
    /\ call_input = None
    /\ safe_result = None
    /\ child_result = <<>>
    /\ response = None
    /\ eval_result = None

\* the boundary layer hands the turn snapshot to on_game_move
OnGameMove ==
    /\ game_pc = "ready" /\ ply = 0
    /\ response' = on_game_move(cur_state)
    /\ game_pc' = "moved"
    /\ UNCHANGED <<cur_state, mover_is_you, ply, call_input, safe_result, child_result,
                   eval_result>>
    /\ UNCHANGED <<searchVars, gridVars>>

\* the search asks for the children of its current state; safe_result keeps
\* the snake and the safe_moves the call worked with
GetChildren ==
    /\ game_pc = "ready"
    /\ LET r == get_children(cur_state, mover_is_you)
           snake_to_move == SnakeToMove(cur_state, mover_is_you)
       IN  /\ call_input' = cur_state
           /\ cur_state' = r.game_state
           /\ child_result' = r.children
           /\ safe_result' =
                  IF snake_to_move = None \/ ~is_snake_alive(snake_to_move.id, cur_state)
                  THEN None
                  ELSE [snake |-> snake_to_move,
                        moves |-> get_safe_moves(snake_to_move, cur_state)]
    /\ game_pc' = "expanded"
    /\ UNCHANGED <<mover_is_you, ply, response, eval_result>>
    /\ UNCHANGED <<searchVars, gridVars>>

\* the search recurses into a child, with the other role and one ply less
Descend ==
    /\ game_pc = "expanded" /\ ply < SEARCH_DEPTH
    /\ \E i \in 1..Len(child_result) : cur_state' = child_result[i][2]
    /\ mover_is_you' = ~mover_is_you
    /\ ply' = ply + 1
    /\ game_pc' = "ready"
    /\ call_input' = None
    /\ safe_result' = None
    /\ child_result' = <<>>
    /\ UNCHANGED <<response, eval_result>>
    /\ UNCHANGED <<searchVars, gridVars>>

\* the search stops at the state it has expanded (its depth has run out, or
\* there are no children) and scores it
EvaluateHeuristic ==
    /\ game_pc = "expanded"
    /\ eval_result' = evaluate_heuristic(cur_state)
    /\ game_pc' = "evaluated"
    /\ UNCHANGED <<cur_state, mover_is_you, ply, call_input, safe_result, child_result,
                   response>>
    /\ UNCHANGED <<searchVars, gridVars>>

(***************************************************************************)
(* Claims about the strategy.                                              *)
(***************************************************************************)
Directions == {"up", "down", "left", "right"}

\* C1: on_game_move answers every turn snapshot with a response that names one
\* of the four directions as its move.
C1_ResponseNamesAMove ==
    game_pc = "moved" =>
        /\ "move" \in DOMAIN response
        /\ response["move"] \in Directions

\* the cell a direction leads to from a head
TargetOf(head, dir) ==
    CASE dir = "up" -> <<head[1], head[2] - 1>>
      [] dir = "down" -> <<head[1], head[2] + 1>>
      [] dir = "left" -> <<head[1] - 1, head[2]>>
      [] dir = "right" -> <<head[1] + 1, head[2]>>

\* C9: _get_safe_moves returns a direction, mapped to its target cell, if and
\* only if the target is on the board, is no body segment of any agent other
\* than that agent's last segment, and is not the head of a rival at least as
\* long as the mover.
C9_SafeMovesExact ==
    (game_pc = "expanded" /\ safe_result # None) =>
        LET snake == safe_result.snake
            moves == safe_result.moves
            board == call_input.board
            Returned(dir) == \E k \in 1..Len(moves) : moves[k][1] = dir
            Allowed(t) ==
                /\ 0 <= t[1] /\ t[1] < board.width /\ 0 <= t[2] /\ t[2] < board.height
                /\ \A i \in 1..Len(board.snakes) :
                      \A j \in 1..(Len(board.snakes[i].body) - 1) :
                          board.snakes[i].body[j] # t
                /\ \A i \in 1..Len(board.snakes) :
                      (board.snakes[i].id # snake.id /\ board.snakes[i].head = t)
                          => board.snakes[i].length < snake.length
        IN  /\ \A dir \in Directions : Returned(dir) <=> Allowed(TargetOf(snake.head, dir))
            /\ \A k \in 1..Len(moves) :
                   /\ moves[k][1] \in Directions
                   /\ moves[k][2] = TargetOf(snake.head, moves[k][1])
                   /\ \A l \in 1..Len(moves) : moves[l][1] = moves[k][1] => l = k

\* C9 witnesses: a mover next to the head of a rival of its own length, which
\* is refused; and one next to the head of a shorter rival, which is returned.
C9_WitnessRefused ==
    /\ game_pc = "expanded" /\ safe_result # None
    /\ \E i \in 1..Len(call_input.board.snakes), dir \in Directions :
          LET rival == call_input.board.snakes[i]
          IN  /\ rival.id # safe_result.snake.id
              /\ rival.head = TargetOf(safe_result.snake.head, dir)
              /\ rival.length = 1 /\ safe_result.snake.length = 1
              /\ ~\E k \in 1..Len(safe_result.moves) : safe_result.moves[k][1] = dir
C9_WitnessReturned ==
    /\ game_pc = "expanded" /\ safe_result # None
    /\ \E i \in 1..Len(call_input.board.snakes), k \in 1..Len(safe_result.moves) :
          LET rival == call_input.board.snakes[i]
          IN  /\ rival.id # safe_result.snake.id
              /\ rival.head = safe_result.moves[k][2]
              /\ rival.length < safe_result.snake.length

\* the children whose move ends on a resource of the input state, with the
\* mover before and after
EatingChildren ==
    {k \in 1..Len(child_result) :
        \E f \in 1..Len(call_input.board.food) :
            call_input.board.food[f] = safe_result.moves[k][2]}
MoverIn(state) == state.board.snakes[find_snake_in_state(safe_result.snake.id, state)]

\* C10 as claimed: in the child of a move onto a resource cell the mover's
\* health is the maximum, its body is as long as in the input state and the
\* resource is gone; the input state is left as it was.
C10_EatingKeepsLength ==
    (game_pc = "expanded" /\ safe_result # None) =>
        /\ cur_state = call_input
        /\ \A k \in EatingChildren :
               LET child == child_result[k][2]
                   target == safe_result.moves[k][2]
               IN  /\ MoverIn(child).health = MaxHealth
                   /\ Len(MoverIn(child).body) = Len(MoverIn(call_input).body)
                   /\ \A f \in 1..Len(child.board.food) : child.board.food[f] # target

\* C10 amended: the same, except that the mover's body is one segment longer
\* than in the input state: the target is the new head and the tail stays.
C10_EatingGrowsByOne ==
    (game_pc = "expanded" /\ safe_result # None) =>
        /\ cur_state = call_input
        /\ \A k \in EatingChildren :
               LET child == child_result[k][2]
                   target == safe_result.moves[k][2]
               IN  /\ MoverIn(child).health = MaxHealth
                   /\ MoverIn(child).body = <<target>> \o MoverIn(call_input).body
                   /\ MoverIn(child).length = Len(MoverIn(call_input).body) + 1
                   /\ \A f \in 1..Len(child.board.food) : child.board.food[f] # target
                   /\ Len(child.board.food) = Len(call_input.board.food) - 1

\* C10 witness: a mover short of full health has a child that eats.
C10_Witness ==
    /\ game_pc = "expanded" /\ safe_result # None
    /\ EatingChildren # {}
    /\ MoverIn(call_input).health < MaxHealth
    /\ cur_state.board.food # <<>>

\* state['you'] agrees with the snake of the same id in board.snakes
YouInSync(state) ==
    LET i == find_snake_in_state(state.you.id, state)
    IN  i # 0 =>
            /\ state.you.head = state.board.snakes[i].head
            /\ state.you.body = state.board.snakes[i].body
            /\ state.you.health = state.board.snakes[i].health
            /\ state.you.length = state.board.snakes[i].length

\* C11: in every state reached from a turn snapshot by children generation,
\* in the children it returns as well, the you record has the head, body,
\* health and length of the snake with its id in board.snakes; so the snake
\* whose safe moves are enumerated for you has the head of that entry.
C11_YouMatchesCollection ==
    cur_state # None =>
        /\ YouInSync(cur_state)
        /\ \A k \in 1..Len(child_result) : YouInSync(child_result[k][2])
        /\ (game_pc = "expanded" /\ safe_result # None /\ call_input.you.id = safe_result.snake.id)
               => safe_result.snake.head =
                      call_input.board.snakes[find_snake_in_state(safe_result.snake.id,
                                                                  call_input)].head

\* the free cells 4-connected to head, the head cell included
OpenRegion(head, state) ==
    Component({head}, get_obstacles_from_state(state) \ {head},
              state.board.width, state.board.height)

\* C12: when the controlled agent is alive with its head on the board, the
\* areas _evaluate_heuristic computes from the controlled agent's head and
\* from the rival's head are at least 1 and equal the number of free cells
\* 4-connected to that head, the head cell included.
C12_AreaCountsOpenRegion ==
    (/\ game_pc = "evaluated"
     /\ is_snake_alive(cur_state.you.id, cur_state)
     /\ InBounds(cur_state.you.head, cur_state.board.width, cur_state.board.height)
     /\ IsFinite(eval_result.score))
    => /\ eval_result.my_space >= 1
       /\ eval_result.my_space = Cardinality(OpenRegion(cur_state.you.head, cur_state))
       /\ get_opponent(cur_state) # None =>
              /\ eval_result.opp_space >= 1
              /\ eval_result.opp_space =
                     Cardinality(OpenRegion(get_opponent(cur_state).head, cur_state))

(***************************************************************************)
(* Specifications: one per component, the other components idle.           *)
(***************************************************************************)
IdleSearch ==
    /\ root = None /\ depth0 = 0 /\ is_maximizing_player = TRUE
    /\ mm_result = NoResult /\ em_result = NoResult
IdleGrid ==
    /\ grid_width = 0 /\ grid_height = 0 /\ grid_start = None /\ grid_end = None
    /\ grid_obstacles = {} /\ grid_pc = "idle" /\ path = None /\ area = 0
IdleGame ==
    /\ cur_state = None /\ mover_is_you = TRUE /\ ply = 0 /\ game_pc = "idle"
    /\ call_input = None
    /\ safe_result = None /\ child_result = <<>> /\ response = None
    /\ eval_result = None

NextSearch == CallMinimax \/ CallExpectimax
StartSearch == InitSearch /\ IdleGrid /\ IdleGame
SpecSearch == StartSearch /\ [][NextSearch]_vars

NextAStar == CallAStar
StartAStar == InitAStar /\ IdleSearch /\ IdleGame
SpecAStar == StartAStar /\ [][NextAStar]_vars

NextGame == OnGameMove \/ GetChildren \/ Descend \/ EvaluateHeuristic
StartGame == InitGame /\ IdleSearch /\ IdleGrid
SpecGame == StartGame /\ [][NextGame]_vars

NextFlood == CallFloodFill
StartFlood == InitFlood /\ IdleSearch /\ IdleGame
SpecFlood == StartFlood /\ [][NextFlood]_vars

=============================================================================
